---- MODULE Spec2Model ----
(***************************************************************************)
(* Model of src/main.py: the landslide back end.  Process-wide state is    *)
(* loaded once at import time (soil_gdf and its spatial index, slope_tif,  *)
(* model, scaler); two request handlers, get_geo_data and predict, run on  *)
(* the server's worker threads.                                            *)
(***************************************************************************)
EXTENDS Integers, Sequences, FiniteSets, TLC

(***************************************************************************)
(* Process-wide state (never assigned after import):                       *)
(*   soil_gdf      the polygon collection, or not loaded                   *)
(*   sindex        the order in which its spatial index lists positions    *)
(*   slope_tif     the raster path, or None                                *)
(*   raster        the dataset the path opens                              *)
(*   model, scaler the pickled artifacts, or None                          *)
(*   workers       the threads that serve requests                         *)
(* Per worker thread:                                                      *)
(*   pc            where the thread is in its handler                      *)
(*   route         the URL rule of the request it serves                   *)
(*   args          lat and lon of a geo-attribute request                  *)
(*   xy            the point in the raster's reference system              *)
(*   src           the raster handle it holds, 0 for none                  *)
(*   slope, soil   the results of get_slope and get_soil_type              *)
(*   data, features, probabilities   the locals of predict                 *)
(*   resp          the response                                            *)
(*   fault         a library call of this request raised                   *)
(* openHandles is the set of raster handles open in the process.           *)
(***************************************************************************)
VARIABLES soil_gdf, sindex, slope_tif, raster, model, scaler, workers,
          pc, route, args, xy, src, openHandles, slope, soil,
          data, features, probabilities, resp, fault

vars == <<soil_gdf, sindex, slope_tif, raster, model, scaler, workers,
          pc, route, args, xy, src, openHandles, slope, soil,
          data, features, probabilities, resp, fault>>

\* process-wide state, set at import time
globals == <<soil_gdf, sindex, slope_tif, raster, model, scaler>>

\* the locals of get_geo_data and get_slope
geo == <<args, xy, slope, soil>>

\* the locals of predict
inference == <<data, features, probabilities>>

(***************************************************************************)
(* Bounds of the model.                                                    *)
(***************************************************************************)
\* worker threads that can serve requests at the same time
NumWorkers == 2
\* largest number of polygon features in the loaded collection
MaxPolys == 3
\* raster grid size, in pixels, and pixel size, in units of the raster CRS
RasterWidth == 2
RasterHeight == 2
PixelSize == 2
\* offset between geographic coordinates and coordinates of the raster CRS
FalseEasting == 3
FalseNorthing == 1
\* largest number of keys in a request body with freely chosen values
MaxFields == 2

\* the geographic domain of EPSG:4326, in degrees
MaxLat == 90
MaxLon == 180

Threads == 1..NumWorkers

(***************************************************************************)
(* Python values: a float (num, nan, inf), None, or a string.  Numbers are *)
(* integers here; nan and inf are kept apart because the code's            *)
(* comparisons treat them differently.                                     *)
(***************************************************************************)
Num(n) == [kind |-> "num", n |-> n, s |-> ""]
NaN == [kind |-> "nan", n |-> 0, s |-> ""]
Inf == [kind |-> "inf", n |-> 0, s |-> ""]
None == [kind |-> "none", n |-> 0, s |-> ""]
Str(t) == [kind |-> "str", n |-> 0, s |-> t]

IsFinite(v) == v.kind = "num"

\* a <= b on floats: false when either side is nan; inf is +infinity
Le(a, b) ==
    CASE a.kind = "nan" \/ b.kind = "nan" -> FALSE
      [] b.kind = "inf" -> TRUE
      [] a.kind = "inf" -> FALSE
      [] OTHER -> a.n <= b.n

\* a == b on floats: nan equals nothing, itself included
FloatEq(a, b) ==
    CASE a.kind = "nan" \/ b.kind = "nan" -> FALSE
      [] a.kind = "inf" \/ b.kind = "inf" -> a.kind = b.kind
      [] OTHER -> a.n = b.n

(***************************************************************************)
(* Polygon geometry.  A polygon is a triangle with integer vertices, a     *)
(* point a pair of integers.                                               *)
(***************************************************************************)
Min2(a, b) == IF a <= b THEN a ELSE b
Max2(a, b) == IF a >= b THEN a ELSE b

Cross(a, b, p) == (b[1] - a[1]) * (p[2] - a[2]) - (b[2] - a[2]) * (p[1] - a[1])

\* GeoSeries.intersects(point): the boundary counts as contained
Intersects(g, p) ==
    LET c1 == Cross(g[1], g[2], p)
        c2 == Cross(g[2], g[3], p)
        c3 == Cross(g[3], g[1], p)
    IN  \/ (c1 >= 0 /\ c2 >= 0 /\ c3 >= 0)
        \/ (c1 <= 0 /\ c2 <= 0 /\ c3 <= 0)

\* the bounding box the spatial index keeps for a geometry
BBox(g) ==
    [minx |-> Min2(g[1][1], Min2(g[2][1], g[3][1])),
     miny |-> Min2(g[1][2], Min2(g[2][2], g[3][2])),
     maxx |-> Max2(g[1][1], Max2(g[2][1], g[3][1])),
     maxy |-> Max2(g[1][2], Max2(g[2][2], g[3][2]))]

\* the box of g meets point.bounds, the zero-area box at p
BoxIntersects(g, p) ==
    LET b == BBox(g)
    IN  b.minx <= p[1] /\ p[1] <= b.maxx /\ b.miny <= p[2] /\ p[2] <= b.maxy


(***************************************************************************)
(* get_soil_type.  soil_gdf is [loaded, hasSNUM, rows]; rows is the        *)
(* feature collection in load order, each row [geometry, SNUM].  sindex is *)
(* the order in which the spatial index hands out row positions.           *)
(***************************************************************************)
\* row.get("SNUM", "Unknown")
SNUM(row) == IF soil_gdf.hasSNUM THEN Str(row.SNUM) ELSE Str("Unknown")

\* list(soil_gdf.sindex.intersection(point.bounds)): positions in index order
possible_matches_index(p) ==
    SelectSeq(sindex, LAMBDA i : BoxIntersects(soil_gdf.rows[i].geometry, p))

\* the candidates of the index taken as matches, with no exact test
precise_matches_unfiltered(p) == possible_matches_index(p)

\* possible_matches[possible_matches.intersects(point)], as row positions
precise_matches(p) ==
    SelectSeq(possible_matches_index(p),
              LAMBDA i : Intersects(soil_gdf.rows[i].geometry, p))

\* Point(lon, lat).is_valid
is_valid(lon, lat) == IsFinite(lon) /\ IsFinite(lat)

get_soil_type(lon, lat, raise) ==
    IF ~soil_gdf.loaded THEN Str("Error: Shapefile not loaded")
    ELSE IF ~is_valid(lon, lat) THEN Str("Error: Invalid coordinates for soil lookup")
    ELSE IF raise THEN Str("Error during processing")
    ELSE LET m == precise_matches(<<lon.n, lat.n>>)
         IN  IF m # <<>> THEN SNUM(soil_gdf.rows[m[1]]) ELSE Str("Unknown")

(***************************************************************************)
(* get_slope.  raster is the dataset behind slope_tif: a north-up grid     *)
(* [left, top, res, width, height, nodata, band], band[<<row, col>>] the   *)
(* pixel value.                                                            *)
(***************************************************************************)
Right(ds) == ds.left + ds.width * ds.res
Bottom(ds) == ds.top - ds.height * ds.res

InDomain(lon, lat) ==
    /\ IsFinite(lon) /\ IsFinite(lat)
    /\ -MaxLon <= lon.n /\ lon.n <= MaxLon
    /\ -MaxLat <= lat.n /\ lat.n <= MaxLat

Shift(v, d) == IF IsFinite(v) THEN Num(v.n + d) ELSE v

\* transformer.transform(lon, lat): what the projection library can return.
\* It raises nothing; outside the domain of the source system it answers
\* inf, or carries the input through when the systems agree.
convert_coords(lon, lat) ==
    IF InDomain(lon, lat)
    THEN {<<Num(lon.n + FalseEasting), Num(lat.n + FalseNorthing)>>}
    ELSE {<<Inf, Inf>>, <<Shift(lon, FalseEasting), Shift(lat, FalseNorthing)>>}

\* src.bounds.left <= x <= src.bounds.right and bottom <= y <= top
in_bounds(ds, x, y) ==
    /\ Le(Num(ds.left), x) /\ Le(x, Num(Right(ds)))
    /\ Le(Num(Bottom(ds)), y) /\ Le(y, Num(ds.top))

\* src.index(x, y): the inverse affine transform, floored
index(ds, x, y) == <<(ds.top - y.n) \div ds.res, (x.n - ds.left) \div ds.res>>

\* 0 <= row < src.height and 0 <= col < src.width
in_grid(ds, rc) ==
    0 <= rc[1] /\ rc[1] < ds.height /\ 0 <= rc[2] /\ rc[2] < ds.width

\* src.read(1, window=..., boundless=True)[0, 0]: outside the grid a
\* boundless read is filled with nodata, or 0 when none is declared
read(ds, rc) ==
    IF in_grid(ds, rc) THEN ds.band[rc]
    ELSE IF ds.nodata.kind = "none" THEN Num(0) ELSE ds.nodata

\* the test read as: nodata is not None and (value == nodata or isnan(value))
is_nodata_regrouped(ds, v) ==
    ds.nodata.kind # "none" /\ (FloatEq(v, ds.nodata) \/ v.kind = "nan")

\* src.nodata is not None and slope_value == src.nodata or np.isnan(slope_value)
is_nodata(ds, v) ==
    (ds.nodata.kind # "none" /\ FloatEq(v, ds.nodata)) \/ v.kind = "nan"

\* the sampling without the check of row and col against the grid
sample_unchecked(ds, x, y) ==
    IF ~in_bounds(ds, x, y) THEN None
    ELSE LET rc == index(ds, x, y)
         IN  IF is_nodata(ds, read(ds, rc)) THEN None ELSE read(ds, rc)

\* lines 115-125, for the transformed point <<x, y>>
sample(ds, x, y) ==
    IF ~in_bounds(ds, x, y) THEN None
    ELSE LET rc == index(ds, x, y)
         IN  IF in_grid(ds, rc)
             THEN IF is_nodata(ds, read(ds, rc)) THEN None ELSE read(ds, rc)
             ELSE None

(***************************************************************************)
(* Responses.  kind is "json" for a response the handler built and         *)
(* "uncaught" when the handler let an exception escape to the framework.   *)
(***************************************************************************)
NoResp ==
    [kind |-> "none", status |-> 0, slope |-> None, soil_type |-> None,
     prediction |-> "", confidence |-> 0, error |-> ""]

ErrorResp(msg, code) == [NoResp EXCEPT !.kind = "json", !.status = code, !.error = msg]

GeoResp(sl, so) ==
    [NoResp EXCEPT !.kind = "json", !.status = 200, !.slope = sl, !.soil_type = so]

Uncaught(msg) == [NoResp EXCEPT !.kind = "uncaught", !.status = 500, !.error = msg]

NoArgs == [lat |-> None, lon |-> None]
NoXY == <<None, None>>
NoData == [k \in {} |-> 0]
NoFeatures == <<>>
NoProbabilities == <<0, 0>>

(***************************************************************************)
(* The geo-attribute request, GET /get_geo_data.                           *)
(***************************************************************************)
\* a request arrives at an idle worker thread with its query arguments
GeoRequest(t, lat, lon) ==
    /\ t \in workers
    /\ pc[t] = "idle"
    /\ pc' = [pc EXCEPT ![t] = "get_geo_data"]
    /\ route' = [route EXCEPT ![t] = "/get_geo_data"]
    /\ args' = [args EXCEPT ![t] = [lat |-> lat, lon |-> lon]]
    /\ UNCHANGED <<globals, workers, xy, slope, soil, src, openHandles,
                   inference, resp, fault>>

\* lines 135-139: the arguments are parsed; a missing or unparsable one is None
GetGeoData(t) ==
    /\ pc[t] = "get_geo_data"
    /\ IF args[t].lat = None \/ args[t].lon = None
       THEN /\ resp' = [resp EXCEPT ![t] = ErrorResp("Missing or invalid coordinates", 400)]
            /\ pc' = [pc EXCEPT ![t] = "done"]
       ELSE /\ pc' = [pc EXCEPT ![t] = "get_slope"]
            /\ UNCHANGED resp
    /\ UNCHANGED <<globals, workers, route, geo, src, openHandles, inference, fault>>

\* the dataset object that is already open handed to the next caller too
rasterio_open_shared ==
    IF openHandles = {} THEN 1 ELSE CHOOSE h \in openHandles : TRUE

\* rasterio.open(slope_tif): a new dataset object, distinct from every open one
rasterio_open ==
    CHOOSE h \in 1..(Cardinality(openHandles) + 1) :
        /\ h \notin openHandles
        /\ \A g \in 1..(h - 1) : g \in openHandles

\* leaving the with block closes the handle, however the block is left
with_exit(h) == openHandles \ {h}

\* lines 110-113: get_slope up to the open
SlopeOpen(t, raise) ==
    /\ pc[t] = "get_slope"
    /\ IF slope_tif = None
       THEN /\ slope' = [slope EXCEPT ![t] = Str("Error: Raster file not loaded on server")]
            /\ pc' = [pc EXCEPT ![t] = "get_soil_type"]
            /\ UNCHANGED <<src, openHandles, fault>>
       ELSE IF raise
       THEN /\ slope' = [slope EXCEPT ![t] = Str("Error during processing")]
            /\ pc' = [pc EXCEPT ![t] = "get_soil_type"]
            /\ fault' = [fault EXCEPT ![t] = TRUE]
            /\ UNCHANGED <<src, openHandles>>
       ELSE /\ src' = [src EXCEPT ![t] = rasterio_open]
            /\ openHandles' = openHandles \cup {rasterio_open}
            /\ pc' = [pc EXCEPT ![t] = "sampling"]
            /\ UNCHANGED <<slope, fault>>
    /\ UNCHANGED <<globals, workers, route, args, xy, soil, inference, resp>>

\* lines 114-128: get_slope inside the with block, and the block's exit
SlopeSample(t, raise) ==
    /\ pc[t] = "sampling"
    /\ \E p \in convert_coords(args[t].lon, args[t].lat) :
          /\ xy' = [xy EXCEPT ![t] = p]
          /\ slope' = [slope EXCEPT ![t] =
                          IF raise THEN Str("Error during processing")
                          ELSE sample(raster, p[1], p[2])]
    /\ fault' = [fault EXCEPT ![t] = fault[t] \/ raise]
    /\ openHandles' = with_exit(src[t])
    /\ src' = [src EXCEPT ![t] = 0]
    /\ pc' = [pc EXCEPT ![t] = "get_soil_type"]
    /\ UNCHANGED <<globals, workers, route, args, soil, inference, resp>>

\* line 142: soil = get_soil_type(lon, lat)
SoilLookup(t, raise) ==
    /\ pc[t] = "get_soil_type"
    /\ soil' = [soil EXCEPT ![t] = get_soil_type(args[t].lon, args[t].lat, raise)]
    /\ fault' = [fault EXCEPT ![t] = fault[t] \/ raise]
    /\ pc' = [pc EXCEPT ![t] = "jsonify"]
    /\ UNCHANGED <<globals, workers, route, args, xy, slope, src, openHandles,
                   inference, resp>>

\* lines 144-147: float(slope) raises ValueError on a string, and nothing
\* in get_geo_data catches it
GeoRespond(t) ==
    /\ pc[t] = "jsonify"
    /\ resp' = [resp EXCEPT ![t] =
                   IF slope[t].kind = "str"
                   THEN Uncaught("ValueError: could not convert string to float")
                   ELSE GeoResp(slope[t], soil[t])]
    /\ pc' = [pc EXCEPT ![t] = "done"]
    /\ UNCHANGED <<globals, workers, route, geo, src, openHandles, inference, fault>>

\* the response is sent and the request's locals are dropped
Finish(t) ==
    /\ pc[t] = "done"
    /\ pc' = [pc EXCEPT ![t] = "idle"]
    /\ route' = [route EXCEPT ![t] = ""]
    /\ args' = [args EXCEPT ![t] = NoArgs]
    /\ xy' = [xy EXCEPT ![t] = NoXY]
    /\ slope' = [slope EXCEPT ![t] = None]
    /\ soil' = [soil EXCEPT ![t] = None]
    /\ data' = [data EXCEPT ![t] = NoData]
    /\ features' = [features EXCEPT ![t] = NoFeatures]
    /\ probabilities' = [probabilities EXCEPT ![t] = NoProbabilities]
    /\ resp' = [resp EXCEPT ![t] = NoResp]
    /\ fault' = [fault EXCEPT ![t] = FALSE]
    /\ UNCHANGED <<globals, workers, src, openHandles>>

(***************************************************************************)
(* The risk-inference request, POST /predict.  A JSON value is a number    *)
(* (num), a string that spells a number (str), or anything else (bad: a    *)
(* string that spells none, or null).  h is the number in halves, so that  *)
(* 5 stands for 2.5 and int() has something to truncate.                   *)
(***************************************************************************)
JNum(h) == [kind |-> "num", h |-> h]
JStr(h) == [kind |-> "str", h |-> h]
JBad == [kind |-> "bad", h |-> 0]

Ok(h) == [ok |-> TRUE, h |-> h]
Raises == [ok |-> FALSE, h |-> 0]

\* float(v)
py_float(v) == IF v.kind = "bad" THEN Raises ELSE Ok(v.h)

\* int(v): truncates a number toward zero; a string must spell an integer
py_int(v) ==
    CASE v.kind = "bad" -> Raises
      [] v.kind = "str" -> IF v.h % 2 = 0 THEN Ok(v.h) ELSE Raises
      [] OTHER -> IF v.h >= 0 THEN Ok((v.h \div 2) * 2) ELSE Ok(-(((-v.h) \div 2) * 2))

\* the keys read by lines 159-173, in the order of the list
FieldKeys ==
    <<"soil_type", "slope", "soil_moisture",
      "rainfall-3-hr", "rainfall-6-hr", "rainfall-12-hr",
      "rain-intensity-3-hr", "rain-intensity-6hr", "rain-intensity-12-hr",
      "rainfall-1-day", "rainfall-3-day", "rainfall-5-day",
      "rain-intensity-1-day", "rain-intensity-3-day", "rain-intensity-5-day">>

\* the 6-hour and 12-hour intensity keys read in each other's place
feature_key_swapped(i) ==
    IF i = 8 THEN FieldKeys[9] ELSE IF i = 9 THEN FieldKeys[8] ELSE FieldKeys[i]

\* the key whose value lands at position i of the list
feature_key(i) == FieldKeys[i]

\* data.get(key, 0)
get(d, key) == IF key \in DOMAIN d THEN d[key] ELSE JNum(0)

\* lines 158-174: the conversions, element by element
build_features(d) ==
    [i \in 1..Len(FieldKeys) |->
        IF i = 1 THEN py_int(get(d, feature_key(i)))
        ELSE py_float(get(d, feature_key(i)))]

\* an argmax that keeps the last position that holds the maximum
argmax_last(p) == IF p[2] >= p[1] THEN 1 ELSE 0

\* int(np.argmax(probabilities)): the first position that holds the maximum
argmax(p) == IF p[2] > p[1] THEN 1 ELSE 0

\* max(probabilities)
max_probability(p) == IF p[2] > p[1] THEN p[2] ELSE p[1]

\* f"{x * 100:.2f}": a probability, in units of 1/100000, rendered in
\* hundredths of a percent, rounded to nearest (ties to even)
format_percent(x) ==
    LET q == x \div 10
        r == x % 10
    IN  IF r > 5 \/ (r = 5 /\ q % 2 = 1) THEN q + 1 ELSE q

\* "Landslide" if prediction == 1 else "No Landslide"
label(prediction) == IF prediction = 1 THEN "Landslide" ELSE "No Landslide"

PredictResp(p) ==
    [NoResp EXCEPT !.kind = "json", !.status = 200,
                   !.prediction = label(argmax(p)),
                   !.confidence = format_percent(max_probability(p))]

\* the test left out: the handler goes on without the artifacts
models_missing_unchecked == FALSE

\* if not model or not scaler
models_missing == model = None \/ scaler = None

\* a request arrives at an idle worker thread with its JSON body
PredictRequest(t, d) ==
    /\ t \in workers
    /\ pc[t] = "idle"
    /\ pc' = [pc EXCEPT ![t] = "predict"]
    /\ route' = [route EXCEPT ![t] = "/predict"]
    /\ data' = [data EXCEPT ![t] = d]
    /\ UNCHANGED <<globals, workers, geo, src, openHandles, features,
                   probabilities, resp, fault>>

\* lines 151-190.  proba is what the classifier answers for the scaled
\* vector; raise says that the scaler or the classifier raised.
Predict(t, proba, raise) ==
    /\ pc[t] = "predict"
    /\ LET f == build_features(data[t])
       IN  IF models_missing
           THEN /\ resp' = [resp EXCEPT ![t] =
                       ErrorResp("Machine learning models are not loaded on the server", 503)]
                /\ UNCHANGED <<features, probabilities, fault>>
           ELSE IF \E i \in DOMAIN f : ~f[i].ok
           THEN /\ resp' = [resp EXCEPT ![t] = ErrorResp("could not convert", 400)]
                /\ UNCHANGED <<features, probabilities, fault>>
           ELSE /\ features' = [features EXCEPT ![t] = [i \in DOMAIN f |-> f[i].h]]
                /\ fault' = [fault EXCEPT ![t] = raise]
                /\ probabilities' = [probabilities EXCEPT ![t] =
                       IF raise THEN NoProbabilities ELSE proba]
                /\ resp' = [resp EXCEPT ![t] =
                       IF raise THEN ErrorResp("exception during inference", 400)
                       ELSE PredictResp(proba)]
    /\ pc' = [pc EXCEPT ![t] = "done"]
    /\ UNCHANGED <<globals, workers, route, geo, src, openHandles, data>>

(***************************************************************************)
(* What the import-time loading (lines 46-77) can leave behind.            *)
(***************************************************************************)
TriA == <<<<0, 0>>, <<4, 0>>, <<0, 4>>>>
TriB == <<<<4, 4>>, <<0, 4>>, <<4, 0>>>>
TriC == <<<<0, 0>>, <<4, 0>>, <<4, 4>>>>
Geometries == {TriA, TriB, TriC}

\* the SNUM of the row loaded at each position
AttrNames == <<"S1", "S2", "S3", "S4", "S5">>

\* soil_gdf = None
GdfNone == [loaded |-> FALSE, hasSNUM |-> FALSE, rows |-> <<>>]

Gdf(has, geoms) ==
    [loaded |-> TRUE, hasSNUM |-> has,
     rows |-> [i \in DOMAIN geoms |-> [geometry |-> geoms[i], SNUM |-> AttrNames[i]]]]

\* gpd.read_file: every collection of up to MaxPolys features, or None
SoilGdfs ==
    {GdfNone} \cup
    {Gdf(has, g) : has \in BOOLEAN,
                   g \in UNION {[1..n -> Geometries] : n \in 0..MaxPolys}}

DefaultGdf == Gdf(TRUE, <<TriA>>)

\* soil_gdf.sindex: the tree hands out positions in an order of its own
Perms(n) == {q \in [1..n -> 1..n] : \A i, j \in 1..n : i # j => q[i] # q[j]}

TifPath == Str("./data/slope_map/slope.tif")

Pixels == (0..(RasterHeight - 1)) \X (0..(RasterWidth - 1))
PixelValues == {Num(0), Num(47), Num(-9999), NaN}
NodataValues == {None, Num(-9999), NaN}

\* every pixel holds a value of its own, but for one that holds v
Band(special, v) ==
    [rc \in Pixels |-> IF rc = special THEN v ELSE Num(10 * rc[1] + rc[2] + 1)]

Dataset(nodata, band) ==
    [left |-> FalseEasting + 1,
     top |-> FalseNorthing + 1 + RasterHeight * PixelSize,
     res |-> PixelSize, width |-> RasterWidth, height |-> RasterHeight,
     nodata |-> nodata, band |-> band]

Rasters ==
    {Dataset(nd, Band(rc, v)) : nd \in NodataValues, rc \in Pixels, v \in PixelValues}

DefaultRaster == Dataset(Num(-9999), Band(<<0, 0>>, Num(47)))

\* lines 68-77: both artifacts, or neither
Loaded == <<Str("./models/model_4.pkl"), Str("./models/scaler_4.pkl")>>
NotLoaded == <<None, None>>

InitWith(gdfs, tifs, rasters, artifacts, ws) ==
    /\ soil_gdf \in gdfs
    /\ sindex \in Perms(Len(soil_gdf.rows))
    /\ slope_tif \in tifs
    /\ raster \in rasters
    /\ \E a \in artifacts : model = a[1] /\ scaler = a[2]
    /\ workers = ws
    /\ pc = [t \in Threads |-> "idle"]
    /\ route = [t \in Threads |-> ""]
    /\ args = [t \in Threads |-> NoArgs]
    /\ xy = [t \in Threads |-> NoXY]
    /\ src = [t \in Threads |-> 0]
    /\ openHandles = {}
    /\ slope = [t \in Threads |-> None]
    /\ soil = [t \in Threads |-> None]
    /\ data = [t \in Threads |-> NoData]
    /\ features = [t \in Threads |-> NoFeatures]
    /\ probabilities = [t \in Threads |-> NoProbabilities]
    /\ resp = [t \in Threads |-> NoResp]
    /\ fault = [t \in Threads |-> FALSE]

(***************************************************************************)
(* Request inputs.                                                         *)
(***************************************************************************)
\* coordinates over the polygons, and a non-finite one
SoilCoords == {Num(n) : n \in 0..5} \cup {NaN}

\* coordinates across the raster and one step beyond each edge, non-finite
\* ones, and one outside the geographic domain
SlopeLons == {Num(n) : n \in 0..(RasterWidth * PixelSize + 2)} \cup {NaN, Inf, Num(MaxLon + 1)}
SlopeLats == {Num(n) : n \in 0..(RasterHeight * PixelSize + 2)} \cup {NaN, Inf, Num(MaxLat + 1)}

\* a key the handler does not read
UnknownKey == "rain-intensity-6-hr"
SchemaKeys == {FieldKeys[i] : i \in 1..Len(FieldKeys)}
AllKeys == SchemaKeys \cup {UnknownKey}

KeyPos(k) == IF k \in SchemaKeys THEN CHOOSE i \in 1..Len(FieldKeys) : FieldKeys[i] = k ELSE 0

\* every subset of the keys, each key with a value of its own (i + 1/2)
CanonicalData == {[k \in S |-> JNum(2 * KeyPos(k) + 1)] : S \in SUBSET AllKeys}

FreeValues == {JNum(4), JNum(5), JNum(-5), JStr(4), JStr(5), JBad}

\* up to MaxFields keys, each with any value
FreeData ==
    UNION {[S -> FreeValues] : S \in {T \in SUBSET AllKeys : Cardinality(T) <= MaxFields}}

SmallData ==
    {NoData, [k \in {"soil_type"} |-> JNum(2)], [k \in {"slope"} |-> JBad],
     [k \in {"slope"} |-> JNum(5)], [k \in {"soil_type", "slope"} |-> JStr(5)]}

\* probabilities in units of 1/100000
ProbValues == {0, 12344, 49995, 50000, 50005, 87656, 100000}
ProbPairs == ProbValues \X ProbValues

(***************************************************************************)
(* Specifications.                                                         *)
(***************************************************************************)
GeoSteps(t, slopeRaises, soilRaises) ==
    \/ GetGeoData(t)
    \/ \E raise \in slopeRaises : SlopeOpen(t, raise)
    \/ \E raise \in slopeRaises : SlopeSample(t, raise)
    \/ \E raise \in soilRaises : SoilLookup(t, raise)
    \/ GeoRespond(t)
    \/ Finish(t)

\* polygon lookup: one worker, every polygon collection
InitSoil == InitWith(SoilGdfs, {TifPath}, {DefaultRaster}, {Loaded}, {1})

NextSoil ==
    \E t \in Threads :
        \/ /\ t \in workers /\ pc[t] = "idle"
           /\ \E lat \in SoilCoords, lon \in SoilCoords :
                 GeoRequest(t, lat, lon)
        \/ GeoSteps(t, {FALSE}, BOOLEAN)

SpecSoil == InitSoil /\ [][NextSoil]_vars

\* raster sampling: one worker, every raster
InitSlope == InitWith({DefaultGdf}, {TifPath}, Rasters, {Loaded}, {1})

NextSlope ==
    \E t \in Threads :
        \/ /\ t \in workers /\ pc[t] = "idle"
           /\ \E lat \in SlopeLats, lon \in SlopeLons :
                 GeoRequest(t, lat, lon)
        \/ GeoSteps(t, BOOLEAN, {FALSE})

SpecSlope == InitSlope /\ [][NextSlope]_vars

\* feature vector: one worker, every request body
InitFeatures == InitWith({DefaultGdf}, {TifPath}, {DefaultRaster}, {Loaded}, {1})

NextFeatures ==
    \E t \in Threads :
        \/ /\ t \in workers /\ pc[t] = "idle"
           /\ \E d \in CanonicalData \cup FreeData :
                 PredictRequest(t, d)
        \/ Predict(t, <<50000, 50000>>, FALSE)
        \/ Finish(t)

SpecFeatures == InitFeatures /\ [][NextFeatures]_vars

\* inference: one worker, every classifier answer, with and without artifacts
InitPredict == InitWith({DefaultGdf}, {TifPath}, {DefaultRaster}, {Loaded, NotLoaded}, {1})

NextPredict ==
    \E t \in Threads :
        \/ /\ t \in workers /\ pc[t] = "idle"
           /\ \E d \in SmallData :
                 PredictRequest(t, d)
        \/ pc[t] = "predict" /\ \E p \in ProbPairs, raise \in BOOLEAN : Predict(t, p, raise)
        \/ Finish(t)

SpecPredict == InitPredict /\ [][NextPredict]_vars

\* the server: every worker thread, both handlers, every loading outcome
Init == InitWith({DefaultGdf, GdfNone}, {TifPath, None}, {DefaultRaster},
                 {Loaded, NotLoaded}, Threads)

Next ==
    \E t \in Threads :
        \/ /\ t \in workers /\ pc[t] = "idle"
           /\ \E lat \in {None, Num(2), NaN} :
                 GeoRequest(t, lat, Num(2))
        \/ GeoSteps(t, BOOLEAN, BOOLEAN)
        \/ /\ t \in workers /\ pc[t] = "idle"
           /\ \E d \in SmallData :
                 PredictRequest(t, d)
        \/ \E raise \in BOOLEAN : Predict(t, <<50000, 50000>>, raise)

Spec == Init /\ [][Next]_vars

(***************************************************************************)
(* Polygon lookup.                                                         *)
(***************************************************************************)
\* the point lies in the open interior of g
StrictlyInside(g, p) ==
    LET c1 == Cross(g[1], g[2], p)
        c2 == Cross(g[2], g[3], p)
        c3 == Cross(g[3], g[1], p)
    IN  \/ (c1 > 0 /\ c2 > 0 /\ c3 > 0)
        \/ (c1 < 0 /\ c2 < 0 /\ c3 < 0)

\* thread t has run a lookup that reached the index: the collection is
\* loaded, the point is finite and the lookup did not raise
LookedUp(t) ==
    /\ pc[t] \in {"jsonify", "done"}
    /\ route[t] = "/get_geo_data"
    /\ soil[t] # None
    /\ soil_gdf.loaded
    /\ IsFinite(args[t].lon) /\ IsFinite(args[t].lat)
    /\ ~fault[t]

QueryPoint(t) == <<args[t].lon.n, args[t].lat.n>>

Rows == 1..Len(soil_gdf.rows)
Containing(p) == {i \in Rows : Intersects(soil_gdf.rows[i].geometry, p)}

\* C1: when two or more loaded polygons contain the query point, the lookup
\* returns the attribute of the containing polygon with the lowest load-order
\* index, whatever order the spatial index hands the candidates out in.
C1_LowestLoadIndex ==
    \A t \in Threads :
        LookedUp(t) /\ Cardinality(Containing(QueryPoint(t))) >= 2 =>
            LET first == CHOOSE i \in Containing(QueryPoint(t)) :
                             \A j \in Containing(QueryPoint(t)) : i <= j
            IN  soil[t] = SNUM(soil_gdf.rows[first])

Sampled(t) ==
    /\ pc[t] \in {"get_soil_type", "jsonify", "done"}
    /\ route[t] = "/get_geo_data"
    /\ xy[t] # NoXY
    /\ slope_tif # None
    /\ ~fault[t]

\* the point is in the closed bounds rectangle
InRectangle(ds, p) ==
    /\ IsFinite(p[1]) /\ IsFinite(p[2])
    /\ ds.left <= p[1].n /\ p[1].n <= ds.left + ds.width * ds.res
    /\ ds.top - ds.height * ds.res <= p[2].n /\ p[2].n <= ds.top

OnEdge(ds, p) ==
    /\ InRectangle(ds, p)
    /\ \/ p[1].n = ds.left \/ p[1].n = ds.left + ds.width * ds.res
       \/ p[2].n = ds.top \/ p[2].n = ds.top - ds.height * ds.res

\* the pixel that holds the point, by floored division
PixelOf(ds, p) == <<(ds.top - p[2].n) \div ds.res, (p[1].n - ds.left) \div ds.res>>

\* C3: for a loaded raster get_slope returns null for a point outside the
\* bounds rectangle; for a point on a bounds edge it returns a pixel value or
\* null, never an error; a point within the inclusive bounds whose floored
\* pixel indices fall outside the grid yields null.
C3_BoundsAndEdges ==
    \A t \in Threads :
        Sampled(t) =>
            /\ ~InRectangle(raster, xy[t]) => slope[t] = None
            /\ OnEdge(raster, xy[t]) =>
                  \/ slope[t] = None
                  \/ \E rc \in Pixels : slope[t] = raster.band[rc] /\ IsFinite(slope[t])
            /\ InRectangle(raster, xy[t]) /\ PixelOf(raster, xy[t]) \notin Pixels =>
                  slope[t] = None

\* a point on the right edge, within the bounds and one column off the grid,
\* with no nodata declared, has got null
C3_Witness ==
    \E t \in Threads :
        /\ Sampled(t)
        /\ OnEdge(raster, xy[t])
        /\ xy[t][1].n = raster.left + raster.width * raster.res
        /\ PixelOf(raster, xy[t])[2] = raster.width
        /\ raster.nodata = None
        /\ slope[t] = None

\* C4: for an in-grid pixel get_slope returns null when the pixel equals the
\* declared nodata sentinel or is not-a-number (also with no sentinel
\* declared), and otherwise exactly the value of the pixel at (row, col).
C4_NodataAndValue ==
    \A t \in Threads :
        Sampled(t) /\ InRectangle(raster, xy[t]) /\ PixelOf(raster, xy[t]) \in Pixels =>
            LET v == raster.band[PixelOf(raster, xy[t])]
                sentinel == /\ IsFinite(raster.nodata) /\ IsFinite(v)
                            /\ v.n = raster.nodata.n
            IN  IF sentinel \/ v.kind = "nan" THEN slope[t] = None ELSE slope[t] = v

\* a not-a-number pixel of a raster that declares no nodata has given null
C4_Witness ==
    \E t \in Threads :
        /\ Sampled(t)
        /\ InRectangle(raster, xy[t])
        /\ PixelOf(raster, xy[t]) \in Pixels
        /\ raster.band[PixelOf(raster, xy[t])] = NaN
        /\ raster.nodata = None
        /\ slope[t] = None

(***************************************************************************)
(* Feature vector and inference.                                           *)
(***************************************************************************)
\* the integer part of h halves, toward zero, in halves
IntegerPart(h) ==
    CHOOSE m \in {2 * k : k \in -50..50} :
        /\ (h >= 0 => 0 <= m /\ m <= h /\ h - m < 2)
        /\ (h < 0 => h <= m /\ m <= 0 /\ m - h < 2)

\* every schema field of the body is a JSON number
AllNumbers(d) == \A k \in DOMAIN d \cap SchemaKeys : d[k].kind = "num"

\* C5: for every subset of the 15 schema fields present in the body, the
\* vector built by predict has 15 elements in the schema order: a present
\* field stands at its own position (soil_type integer-coded), an absent one
\* is 0, and an unrecognized field changes nothing.
C5_FeatureVector ==
    \A t \in Threads :
        pc[t] = "done" /\ route[t] = "/predict" /\ ~models_missing
        /\ AllNumbers(data[t]) =>
            /\ Len(features[t]) = 15
            /\ \A i \in 1..15 :
                  features[t][i] =
                      IF FieldKeys[i] \notin DOMAIN data[t] THEN 0
                      ELSE IF i = 1 THEN IntegerPart(data[t][FieldKeys[i]].h)
                      ELSE data[t][FieldKeys[i]].h

\* a body with the unrecognized key, soil_type, the 6-hour intensity and no
\* 12-hour intensity has given a vector with soil_type truncated
C5_Witness ==
    \E t \in Threads :
        /\ pc[t] = "done" /\ route[t] = "/predict"
        /\ AllNumbers(data[t])
        /\ UnknownKey \in DOMAIN data[t]
        /\ {"soil_type", "rain-intensity-6hr"} \subseteq DOMAIN data[t]
        /\ "rain-intensity-12-hr" \notin DOMAIN data[t]
        /\ Len(features[t]) = 15
        /\ features[t][1] # data[t]["soil_type"].h
        /\ features[t][8] # 0 /\ features[t][9] = 0

\* C6: if the classifier or the scaler failed to load, every risk-inference
\* request ends with status 503, whatever its body, and no step of any
\* request changes model or scaler.
C6_UnavailableForEver ==
    /\ [](\A t \in Threads :
             pc[t] = "done" /\ route[t] = "/predict" /\ (model = None \/ scaler = None) =>
                 resp[t].kind = "json" /\ resp[t].status = 503)
    /\ [][model' = model /\ scaler' = scaler]_vars

\* a request with a non-empty body has ended with 503, the artifacts missing
C6_Witness ==
    \E t \in Threads :
        /\ pc[t] = "done" /\ route[t] = "/predict"
        /\ model = None /\ scaler = None
        /\ data[t] # NoData
        /\ resp[t].status = 503

\* C9: for every pair of class probabilities, predict reports Landslide when
\* class 1 has the larger probability and No Landslide otherwise, an exact
\* tie included, and the confidence is the larger probability as a
\* percentage, to the nearest hundredth.
C9_ArgmaxAndConfidence ==
    \A t \in Threads :
        pc[t] = "done" /\ route[t] = "/predict" /\ resp[t].status = 200 =>
            LET p == probabilities[t]
                top == CHOOSE m \in {p[1], p[2]} : m >= p[1] /\ m >= p[2]
            IN  /\ p[2] > p[1] => resp[t].prediction = "Landslide"
                /\ p[1] >= p[2] => resp[t].prediction = "No Landslide"
                /\ 10 * resp[t].confidence - top <= 5
                /\ top - 10 * resp[t].confidence <= 5

\* an exact tie has been reported as No Landslide with confidence 50.00%
C9_Witness ==
    \E t \in Threads :
        /\ pc[t] = "done" /\ route[t] = "/predict" /\ resp[t].status = 200
        /\ probabilities[t][1] = probabilities[t][2]
        /\ probabilities[t][1] = 50000
        /\ resp[t].prediction = "No Landslide"
        /\ resp[t].confidence = 5000

(***************************************************************************)
(* The request boundary.                                                   *)
(***************************************************************************)
\* C7: every failure while handling a geo-attribute or risk-inference query,
\* a resource that failed to load and an exception during sampling or lookup
\* included, ends in a structured failure response; no request ends with an
\* uncaught exception.
C7_NoUncaughtException ==
    \A t \in Threads : pc[t] = "done" => resp[t].kind = "json"

\* C8: a geo-attribute query whose coordinates are non-finite or outside the
\* geographic domain (|lat| > 90 or |lon| > 180) is rejected; it never ends
\* with a successful slope/soil_type result.
C8_InvalidCoordinateRejected ==
    \A t \in Threads :
        /\ pc[t] = "done" /\ route[t] = "/get_geo_data"
        /\ args[t].lat # None /\ args[t].lon # None
        /\ ~InDomain(args[t].lon, args[t].lat)
        => ~(resp[t].kind = "json" /\ resp[t].status = 200)

(***************************************************************************)
(* Raster handles under concurrent requests.                               *)
(***************************************************************************)
Holders == {t \in Threads : src[t] # 0}

\* C10: under any interleaving of geo-attribute requests each get_slope call
\* holds a raster handle of its own, only inside the with block; no handle is
\* held by two requests; every exit of the block releases it, so that no
\* handle is open once no request is inside; and no step of any request
\* changes the polygon index, the raster path, the model or the scaler.
C10_ScopedHandles ==
    /\ [](/\ \A t \in Threads : src[t] # 0 <=> pc[t] = "sampling"
          /\ \A t, u \in Holders : t # u => src[t] # src[u]
          /\ openHandles = {src[t] : t \in Holders}
          /\ (\A t \in Threads : pc[t] \in {"idle", "done"}) => openHandles = {})
    /\ [][globals' = globals]_vars

\* two requests are inside the with block at once, each with its own handle
C10_Witness ==
    \E t, u \in Threads :
        /\ t # u
        /\ pc[t] = "sampling" /\ pc[u] = "sampling"
        /\ src[t] # src[u]
        /\ Cardinality(openHandles) = 2

====
